---- MODULE Spec2Model ----
(***************************************************************************)
(* Model of the recipe API: app/recipe/views.py (the viewsets and their    *)
(* querysets) and app/recipe/serializers.py (nested create / update of a   *)
(* recipe's tags and ingredients).  One action is one HTTP request handled *)
(* from routing to response; the database is the record db.                *)
(***************************************************************************)
EXTENDS Integers, Sequences, FiniteSets, TLC

\* ------------------------------------------------------------------ bounds
\* Recipe rows ever inserted (auto-increment ids 1..MaxRecipes).
MaxRecipes == 2
\* Tag rows ever inserted (ids 1..MaxTags).
MaxTags == 2
\* Ingredient rows ever inserted (ids 1..MaxIngredients).
MaxIngredients == 1

\* ------------------------------------------------------------ input domains
Users == {"u1", "u2"}
Names == {"a", "b"}
Titles == {"t1"}
\* The name lists a payload embeds under 'tags' and under 'ingredient'.
TagLists == {<< >>, <<"a">>, <<"b">>, <<"a", "b">>}
IngredientLists == {<< >>, <<"a">>}
Relations == {"tags", "ingredient"}

RecipeIds == 1..MaxRecipes
RowIds(rel) == IF rel = "tags" THEN 1..MaxTags ELSE 1..MaxIngredients

\* db: the database.  inflight: the requests being served side by side, each
\* with the statement it has reached (empty while requests are served one
\* after the other).
VARIABLES db, inflight

vars == <<db, inflight>>

\* ------------------------------------------------------------------ storage
\* db.Recipe, db.Tag, db.Ingredient: the rows of each table, a row carrying
\* its id.  db.recipe_tags, db.recipe_ingredient: the many-to-many
\* association rows, pairs <<recipe id, tag / ingredient id>>.  db.seq: the
\* last id each table's auto-increment handed out (ids are never reused).
EmptyDb ==
    [Recipe |-> {}, Tag |-> {}, Ingredient |-> {},
     recipe_tags |-> {}, recipe_ingredient |-> {},
     seq |-> [Recipe |-> 0, Tag |-> 0, Ingredient |-> 0]]

\* The table and the association table behind a relation of Recipe.
Table(rel) == IF rel = "tags" THEN "Tag" ELSE "Ingredient"
M2M(rel) == IF rel = "tags" THEN "recipe_tags" ELSE "recipe_ingredient"

Ids(rows) == {r.id : r \in rows}
Row(rows, id) == CHOOSE r \in rows : r.id = id

\* recipe.tags.all() / recipe.ingredient.all(): ids associated with recipe r.
Assoc(d, rel, r) == {p[2] : p \in {q \in d[M2M(rel)] : q[1] = r}}

\* --------------------------------------------------------- optional values
\* A payload key, a query parameter or a popped value: present with a value,
\* or absent (Python's missing key / None).
Some(v) == [has |-> TRUE, val |-> v]
NoStr == [has |-> FALSE, val |-> ""]
NoList == [has |-> FALSE, val |-> << >>]

\* dict.pop(key, default) on the validated data.
Pop(validated_data, key, default) ==
    IF validated_data[key].has THEN validated_data[key] ELSE default

\* ------------------------------------------------------------- serializers
\* get_or_create as it would be with the lookup on the name alone: a row of
\* any owner matches.
get_or_create_any_owner(d, table, auth_user, name) ==
    LET matches == {r \in d[table] : r.name = name}
        newId == d.seq[table] + 1
    IN  IF Cardinality(matches) > 1
        THEN [db |-> d, obj |-> 0, raised |-> TRUE]
        ELSE IF matches # {}
        THEN [db |-> d, obj |-> (CHOOSE r \in matches : TRUE).id,
              raised |-> FALSE]
        ELSE [db |-> [d EXCEPT ![table] = @ \cup
                            {[id |-> newId, user |-> auth_user, name |-> name]},
                        !.seq[table] = newId],
              obj |-> newId, raised |-> FALSE]

\* Tag.objects.get_or_create(user=auth_user, name=name): the one matching
\* row, a new row when none matches, MultipleObjectsReturned when several do.
get_or_create(d, table, auth_user, name) ==
    LET matches == {r \in d[table] : r.user = auth_user /\ r.name = name}
        newId == d.seq[table] + 1
    IN  IF Cardinality(matches) > 1
        THEN [db |-> d, obj |-> 0, raised |-> TRUE]
        ELSE IF matches # {}
        THEN [db |-> d, obj |-> (CHOOSE r \in matches : TRUE).id,
              raised |-> FALSE]
        ELSE [db |-> [d EXCEPT ![table] = @ \cup
                            {[id |-> newId, user |-> auth_user, name |-> name]},
                        !.seq[table] = newId],
              obj |-> newId, raised |-> FALSE]

\* The loop shared by _get_or_create_tags and _get_or_create_ingredient: for
\* each embedded name in turn, get or create the row and add it to the
\* recipe's relation.  Every write is committed as it is made (no
\* transaction is opened), so an exception leaves the earlier writes behind.
RECURSIVE get_or_create_each(_, _, _, _, _)
get_or_create_each(rel, names, recipe, auth_user, d) ==
    IF names = << >>
    THEN [db |-> d, raised |-> FALSE]
    ELSE LET g == get_or_create(d, Table(rel), auth_user, Head(names))
         IN  IF g.raised
             THEN [db |-> d, raised |-> TRUE]
             ELSE get_or_create_each(rel, Tail(names), recipe, auth_user,
                      [g.db EXCEPT ![M2M(rel)] = @ \cup {<<recipe, g.obj>>}])

get_or_create_tags(tags, recipe, auth_user, d) ==
    get_or_create_each("tags", tags, recipe, auth_user, d)

get_or_create_ingredient(ingredients, recipe, auth_user, d) ==
    get_or_create_each("ingredient", ingredients, recipe, auth_user, d)

\* Model attributes a validated key is written to by create(**validated_data)
\* and by update's setattr loop.
SetAttrs(row, validated_data) ==
    [row EXCEPT
        !.title = IF validated_data.title.has
                  THEN validated_data.title.val ELSE @,
        !.user = IF validated_data.user.has
                 THEN validated_data.user.val ELSE @]

\* RecipeSerializer.create
create(validated_data, auth_user, d) ==
    LET tags == Pop(validated_data, "tags", Some(<< >>))
        ingredient == Pop(validated_data, "ingredient", Some(<< >>))
        newId == d.seq.Recipe + 1
        recipe == SetAttrs([id |-> newId, user |-> "", title |-> "",
                            image |-> FALSE], validated_data)
        d1 == [d EXCEPT !.Recipe = @ \cup {recipe}, !.seq.Recipe = newId]
        t == get_or_create_tags(tags.val, newId, auth_user, d1)
        i == get_or_create_ingredient(ingredient.val, newId, auth_user, t.db)
    IN  IF t.raised THEN [db |-> t.db, obj |-> newId, raised |-> TRUE]
        ELSE [db |-> i.db, obj |-> newId, raised |-> i.raised]

\* instance.tags.clear() / instance.ingredient.clear()
clear(d, rel, instance) ==
    [d EXCEPT ![M2M(rel)] = {p \in @ : p[1] # instance}]

\* RecipeSerializer.update
update(instance, validated_data, auth_user, d) ==
    LET tags == Pop(validated_data, "tags", Some(<< >>))
        ingredient == Pop(validated_data, "ingredient", Some(<< >>))
        t == IF tags.has
             THEN get_or_create_tags(tags.val, instance, auth_user,
                                     clear(d, "tags", instance))
             ELSE [db |-> d, raised |-> FALSE]
        i == IF ingredient.has
             THEN get_or_create_ingredient(ingredient.val, instance, auth_user,
                                           clear(t.db, "ingredient", instance))
             ELSE [db |-> t.db, raised |-> FALSE]
        old == Row(d.Recipe, instance)
        saved == [i.db EXCEPT !.Recipe =
                     (@ \ {old}) \cup {SetAttrs(old, validated_data)}]
    IN  IF t.raised THEN [db |-> t.db, raised |-> TRUE]
        ELSE IF i.raised THEN [db |-> i.db, raised |-> TRUE]
        ELSE [db |-> saved, raised |-> FALSE]

\* ------------------------------------------------------------------- views
\* HTTP status codes of rest_framework.status; 500 is Django's answer to an
\* exception no handler catches.
HTTP_200_OK == 200
HTTP_201_CREATED == 201
HTTP_204_NO_CONTENT == 204
HTTP_400_BAD_REQUEST == 400
HTTP_401_UNAUTHORIZED == 401
HTTP_404_NOT_FOUND == 404
HTTP_405_METHOD_NOT_ALLOWED == 405
HTTP_500_INTERNAL_SERVER_ERROR == 500

\* Meta.fields as it would be with 'user' among the writable fields.
RecipeFieldsWithUser == {"title", "tags", "ingredient", "user"}

\* The writable fields of RecipeSerializer.Meta ('id' is read-only; 'title'
\* stands for the scalar columns title, time_minutes, price, link, which the
\* serializer treats alike).
RecipeFields == {"title", "tags", "ingredient"}

\* Serializer validation keeps the declared writable fields of the payload
\* and drops every other key.
to_internal_value(data, fields) ==
    [k \in DOMAIN data |->
        IF k \in fields THEN data[k] ELSE [data[k] EXCEPT !.has = FALSE]]

\* serializer.errors of RecipeSerializer: a required field may be missing
\* only in a partial update, and each nested tag / ingredient is validated by
\* its own serializer, whose name field rejects a blank name.
recipe_errors(data, partial) ==
    {f \in {"title"} : ~partial /\ ~data.title.has}
    \cup {f \in Relations :
            data[f].has /\ \E k \in DOMAIN data[f].val : data[f].val[k] = ""}

\* serializer.errors of TagSerializer and IngredientSerializer.
attr_errors(data, partial) ==
    {f \in {"name"} : \/ ~partial /\ ~data.name.has
                      \/ data.name.has /\ data.name.val = ""}

\* serializer.errors of RecipeImageSeriaizer: the image field is not
\* required; what is given must be an image.
image_errors(data) ==
    {f \in {"image"} : data.image.has /\ data.image.val # "image"}

\* Validation as it would be when the serializer is saved unchecked.
is_valid_skipped(data, partial) == TRUE

\* serializer.is_valid()
is_valid(data, partial) == recipe_errors(data, partial) = {}

\* int(str_id) for one element of a comma-separated parameter: the decimal
\* literals of the ids in range convert, anything else raises ValueError.
IntLiterals == <<"1", "2", "3", "4">>
int(str_id) ==
    IF \E n \in DOMAIN IntLiterals : IntLiterals[n] = str_id
    THEN [raised |-> FALSE,
          val |-> CHOOSE n \in DOMAIN IntLiterals : IntLiterals[n] = str_id]
    ELSE [raised |-> TRUE, val |-> 0]

\* RecipeViewSet._params_to_ints; qs is the parameter already split at ','.
params_to_ints(qs) ==
    [raised |-> \E k \in DOMAIN qs : int(qs[k]).raised,
     val |-> {int(qs[k]).val : k \in DOMAIN qs}]

\* `if tags:` holds for a parameter that is given and not the empty string
\* (which splits into the single empty element).
Truthy(param) == param.has /\ param.val # <<"">>

\* queryset.filter(<rel>__id__in=ids): the join with the association table
\* yields a recipe once per matching association row.
filter_in(qs, d, rel, ids) ==
    [r \in DOMAIN qs |-> qs[r] * Cardinality(Assoc(d, rel, r) \cap ids)]

\* distinct() as it would be when left out: the join's duplicates stay.
distinct_skipped(qs) == qs

\* The queryset as it would be without the filter on the owner.
filter_user_skipped(qs, d, user) == qs

\* queryset.filter(user=user)
filter_user(qs, d, user) ==
    [r \in DOMAIN qs |-> IF Row(d.Recipe, r).user = user THEN qs[r] ELSE 0]

\* queryset.distinct()
distinct(qs) == [r \in DOMAIN qs |-> IF qs[r] > 0 THEN 1 ELSE 0]

\* RecipeViewSet.get_queryset: the result rows as recipe id -> number of
\* times the row is returned, or raised when a parameter does not convert.
get_queryset(d, user, query) ==
    LET all == [r \in Ids(d.Recipe) |-> 1]
        tags_ids == params_to_ints(query.tags.val)
        ingredient_ids == params_to_ints(query.ingredient.val)
        q1 == IF Truthy(query.tags)
              THEN filter_in(all, d, "tags", tags_ids.val) ELSE all
        q2 == IF Truthy(query.ingredient)
              THEN filter_in(q1, d, "ingredient", ingredient_ids.val) ELSE q1
    IN  IF Truthy(query.tags) /\ tags_ids.raised
        THEN [raised |-> TRUE, rows |-> all]
        ELSE IF Truthy(query.ingredient) /\ ingredient_ids.raised
        THEN [raised |-> TRUE, rows |-> all]
        ELSE [raised |-> FALSE, rows |-> distinct(filter_user(q2, d, user))]

\* order_by('-id') applied to the result rows: the ids from the largest
\* down, each as often as the queryset returns it.
RECURSIVE order_by_id_desc(_, _)
order_by_id_desc(qs, top) ==
    IF top = 0 THEN << >>
    ELSE (IF top \in DOMAIN qs
          THEN [k \in 1..qs[top] |-> top] ELSE << >>)
         \o order_by_id_desc(qs, top - 1)

\* BaseRecipeAttrViewSet.get_queryset: the caller's rows of the table.  The
\* request's assigned_only parameter is not read.
attr_queryset(d, table, user) == {r \in d[table] : r.user = user}

\* order_by('-name'): every listing of the rows by descending name; the
\* database settles the order of rows with equal names.
NameRank(name) == IF name = "a" THEN 1 ELSE 2
order_by_name_desc(rows) ==
    {s \in [1..Cardinality(rows) -> Ids(rows)] :
        /\ \A j, k \in DOMAIN s : j # k => s[j] # s[k]
        /\ \A j, k \in DOMAIN s :
              j < k => NameRank(Row(rows, s[j]).name)
                         >= NameRank(Row(rows, s[k]).name)}

\* ---------------------------------------------------------------- requests
NoData ==
    [title |-> NoStr, tags |-> NoList, ingredient |-> NoList, user |-> NoStr,
     name |-> NoStr, image |-> NoStr]
NoQuery == [tags |-> NoList, ingredient |-> NoList, assigned_only |-> NoStr]

Opt(values, none) == {none} \cup {Some(v) : v \in values}

\* The bodies sent to the recipe endpoints: every choice of title, tags and
\* ingredient, the bodies that name an owner under 'user', and the bodies
\* that embed a tag with the blank name "", which the name field rejects.
RecipeData ==
    {[NoData EXCEPT !.title = t, !.tags = tg, !.ingredient = ig] :
        t \in Opt(Titles, NoStr), tg \in Opt(TagLists, NoList),
        ig \in Opt(IngredientLists, NoList)}
    \cup {[NoData EXCEPT !.title = t, !.user = Some(us)] :
        t \in Opt(Titles, NoStr), us \in Users}
    \cup {[NoData EXCEPT !.title = t, !.tags = Some(<<"">>)] :
        t \in Opt(Titles, NoStr)}

\* The bodies sent to the tag and ingredient endpoints.
AttrData == {[NoData EXCEPT !.name = n] : n \in Opt(Names \cup {""}, NoStr)}

\* The bodies sent to upload_image: an image file, something that is not an
\* image, or no 'image' key at all (the field is not required).
ImageData == {[NoData EXCEPT !.image = f] : f \in Opt({"image", "notimage"}, NoStr)}

\* The query strings sent with a recipe list request, split at ',' ('1,'
\* splits into '1' and the empty string).
ParamValues == {<<"1">>, <<"1", "2">>, <<"a">>, <<"1", "">>}
RecipeQueries ==
    {[NoQuery EXCEPT !.tags = t, !.ingredient = i] :
        t \in Opt(ParamValues, NoList), i \in Opt(ParamValues, NoList)}
\* The query strings sent with a recipe detail request.
DetailQueries == {[NoQuery EXCEPT !.tags = t] : t \in Opt(ParamValues, NoList)}
AttrQueries == {[NoQuery EXCEPT !.assigned_only = a] : a \in Opt({"1"}, NoStr)}

\* What a handler leaves behind: the database and the response it returns.
Out(d, data, status) == [db |-> d, data |-> data, status |-> status]

\* The ids of the model's tables stay within the bounds.
WithinBounds(d) ==
    /\ d.seq.Recipe <= MaxRecipes
    /\ d.seq.Tag <= MaxTags
    /\ d.seq.Ingredient <= MaxIngredients

\* get_object as it would be when looking the id up among all recipes.
get_object_unscoped(qs, pk) == pk \in DOMAIN qs.rows

\* GenericAPIView.get_object over a recipe queryset: the row with id pk.
get_object(qs, pk) == pk \in DOMAIN qs.rows /\ qs.rows[pk] > 0

\* Deletion as it would be if it cascaded to the associated tags and
\* ingredients.
delete_recipe_cascading(d, pk) ==
    [d EXCEPT !.Recipe = {r \in @ : r.id # pk},
              !.Tag = {a \in @ : a.id \notin Assoc(d, "tags", pk)},
              !.Ingredient = {a \in @ : a.id \notin Assoc(d, "ingredient", pk)},
              !.recipe_tags = {p \in @ : p[2] \notin Assoc(d, "tags", pk)},
              !.recipe_ingredient =
                  {p \in @ : p[2] \notin Assoc(d, "ingredient", pk)}]

\* instance.delete() on a recipe: the row and its association rows.
delete_recipe(d, pk) ==
    [d EXCEPT !.Recipe = {r \in @ : r.id # pk},
              !.recipe_tags = {p \in @ : p[1] # pk},
              !.recipe_ingredient = {p \in @ : p[1] # pk}]

\* instance.delete() on a tag or ingredient: the row and its association rows.
delete_attr(d, rel, pk) ==
    [d EXCEPT ![Table(rel)] = {r \in @ : r.id # pk},
              ![M2M(rel)] = {p \in @ : p[2] # pk}]

\* ---------------------------------------------------------------- handlers
\* Each handler is the whole request, from routing to response, as a
\* function of the database and the request.

\* POST /recipes/recipe/ : CreateModelMixin.create with perform_create, which
\* saves with user=request.user.
recipe_create(d, user, data) ==
    LET validated_data ==
            [to_internal_value(data, RecipeFields) EXCEPT !.user = Some(user)]
        res == create(validated_data, user, d)
    IN  IF ~is_valid(data, FALSE)
        THEN Out(d, << >>, HTTP_400_BAD_REQUEST)
        ELSE IF res.raised
        THEN Out(res.db, << >>, HTTP_500_INTERNAL_SERVER_ERROR)
        ELSE Out(res.db, <<res.obj>>, HTTP_201_CREATED)

\* PUT / PATCH /recipes/recipe/{pk}/ : UpdateModelMixin.update.
recipe_update(d, user, pk, data, partial) ==
    LET qs == get_queryset(d, user, NoQuery)
        validated_data == to_internal_value(data, RecipeFields)
        res == update(pk, validated_data, user, d)
    IN  IF ~get_object(qs, pk)
        THEN Out(d, << >>, HTTP_404_NOT_FOUND)
        ELSE IF ~is_valid(data, partial)
        THEN Out(d, << >>, HTTP_400_BAD_REQUEST)
        ELSE IF res.raised
        THEN Out(res.db, << >>, HTTP_500_INTERNAL_SERVER_ERROR)
        ELSE Out(res.db, <<pk>>, HTTP_200_OK)

\* GET /recipes/recipe/{pk}/?tags=..&ingredient=.. : get_object looks the id
\* up in get_queryset, which reads the query parameters of any request.
recipe_detail(d, user, pk, query) ==
    LET qs == get_queryset(d, user, query)
    IN  IF qs.raised
        THEN Out(d, << >>, HTTP_500_INTERNAL_SERVER_ERROR)
        ELSE IF get_object(qs, pk)
        THEN Out(d, <<pk>>, HTTP_200_OK)
        ELSE Out(d, << >>, HTTP_404_NOT_FOUND)

\* GET /recipes/recipe/{pk}/ : RetrieveModelMixin.retrieve.
recipe_retrieve(d, user, pk) ==
    IF get_object(get_queryset(d, user, NoQuery), pk)
    THEN Out(d, <<pk>>, HTTP_200_OK)
    ELSE Out(d, << >>, HTTP_404_NOT_FOUND)

\* DELETE /recipes/recipe/{pk}/ : DestroyModelMixin.destroy.
recipe_destroy(d, user, pk) ==
    IF get_object(get_queryset(d, user, NoQuery), pk)
    THEN Out(delete_recipe(d, pk), << >>, HTTP_204_NO_CONTENT)
    ELSE Out(d, << >>, HTTP_404_NOT_FOUND)

\* GET /recipes/recipe/ : ListModelMixin.list over get_queryset.
recipe_list(d, user, query) ==
    LET qs == get_queryset(d, user, query)
    IN  IF qs.raised
        THEN Out(d, << >>, HTTP_500_INTERNAL_SERVER_ERROR)
        ELSE Out(d, order_by_id_desc(qs.rows, d.seq.Recipe), HTTP_200_OK)

\* POST /recipes/recipe/{pk}/upload_image/ : RecipeViewSet.upload_image.
upload_image(d, user, pk, data) ==
    LET recipe == Row(d.Recipe, pk)
    IN  IF ~get_object(get_queryset(d, user, NoQuery), pk)
        THEN Out(d, << >>, HTTP_404_NOT_FOUND)
        ELSE IF image_errors(data) # {}
        THEN Out(d, << >>, HTTP_400_BAD_REQUEST)
        ELSE Out([d EXCEPT !.Recipe = (@ \ {recipe}) \cup
                     {[recipe EXCEPT !.image = @ \/ data.image.has]}],
                 <<pk>>, HTTP_200_OK)

\* GET /recipes/tags/ and /recipes/ingredients/ : ListModelMixin.list; the
\* responses the request can get, one per order the database may return.
attr_list(d, rel, user, query) ==
    {Out(d, listing, HTTP_200_OK) :
        listing \in order_by_name_desc(attr_queryset(d, Table(rel), user))}

\* PUT / PATCH /recipes/tags/{pk}/ and /recipes/ingredients/{pk}/.
attr_update(d, rel, user, pk, data, partial) ==
    LET qs == attr_queryset(d, Table(rel), user)
        row == Row(qs, pk)
    IN  IF pk \notin Ids(qs)
        THEN Out(d, << >>, HTTP_404_NOT_FOUND)
        ELSE IF attr_errors(data, partial) # {}
        THEN Out(d, << >>, HTTP_400_BAD_REQUEST)
        ELSE Out([d EXCEPT ![Table(rel)] = (@ \ {row}) \cup
                     {IF data.name.has
                      THEN [row EXCEPT !.name = data.name.val] ELSE row}],
                 <<pk>>, HTTP_200_OK)

\* DELETE /recipes/tags/{pk}/ and /recipes/ingredients/{pk}/.
attr_destroy(d, rel, user, pk) ==
    IF pk \in Ids(attr_queryset(d, Table(rel), user))
    THEN Out(delete_attr(d, rel, pk), << >>, HTTP_204_NO_CONTENT)
    ELSE Out(d, << >>, HTTP_404_NOT_FOUND)

\* POST /recipes/tags/ and /recipes/ingredients/ : BaseRecipeAttrViewSet
\* mixes in destroy, update and list only, so the router maps no POST.
attr_create(d, rel, user, data) ==
    Out(d, << >>, HTTP_405_METHOD_NOT_ALLOWED)

\* ---------------------------------------------------------- authentication
\* The Authorization header of a request: absent, a user's token, or a key
\* no user holds.
Token == [u \in Users |-> IF u = "u1" THEN "key1" ELSE "key2"]
Credentials == Opt({Token[u] : u \in Users} \cup {"nokey"}, NoStr)
ValidCredentials == {Some(Token[u]) : u \in Users}

\* TokenAuthentication.authenticate: no header leaves the request anonymous,
\* a user's token authenticates as that user, any other key fails.
authenticate(credential) ==
    IF ~credential.has
    THEN [failed |-> FALSE, user |-> NoStr]
    ELSE IF \E u \in Users : Token[u] = credential.val
    THEN [failed |-> FALSE,
          user |-> Some(CHOOSE u \in Users : Token[u] = credential.val)]
    ELSE [failed |-> TRUE, user |-> NoStr]

\* The permission as it would be with AllowAny.
AllowAny(user) == TRUE

\* permission_classes = [IsAuthenticated]: request.user is a logged-in user.
IsAuthenticated(user) == user.has

\* The routes of the recipe, tag and ingredient viewsets: the responses that
\* the requests of user u, one per route and input, can get.
routes(d, u) ==
    {recipe_create(d, u, data) : data \in RecipeData}
    \cup {recipe_update(d, u, pk, data, partial) :
            pk \in RecipeIds, data \in RecipeData, partial \in BOOLEAN}
    \cup {recipe_retrieve(d, u, pk) : pk \in RecipeIds}
    \cup {recipe_detail(d, u, pk, query) :
            pk \in RecipeIds, query \in DetailQueries}
    \cup {recipe_destroy(d, u, pk) : pk \in RecipeIds}
    \cup {recipe_list(d, u, query) : query \in RecipeQueries}
    \cup {upload_image(d, u, pk, data) : pk \in RecipeIds, data \in ImageData}
    \cup UNION {
        {attr_create(d, rel, u, data) : data \in AttrData}
        \cup {attr_update(d, rel, u, pk, data, partial) :
                pk \in RowIds(rel), data \in AttrData, partial \in BOOLEAN}
        \cup {attr_destroy(d, rel, u, pk) : pk \in RowIds(rel)}
        \cup UNION {attr_list(d, rel, u, query) : query \in AttrQueries} :
        rel \in Relations}

\* APIView.initial and dispatch for the recipe, tag and ingredient viewsets:
\* authentication and the permission check run before the handler, whichever
\* the method and the route; a request they turn down is answered 401 (the
\* TokenAuthentication scheme supplies the WWW-Authenticate header) and its
\* handler is not run.  The responses that the requests sent with the
\* credential, one per route and input, can get.
dispatch(d, credential) ==
    LET auth == authenticate(credential)
    IN  IF auth.failed \/ ~IsAuthenticated(auth.user)
        THEN {Out(d, << >>, HTTP_401_UNAUTHORIZED)}
        ELSE routes(d, auth.user.val)

\* POST /user/create/ : CreateUserView declares no permission class, so the
\* request is served without a credential.  The user table is outside db.
user_create(d, credential, data) ==
    IF attr_errors(data, FALSE) = {}
    THEN Out(d, << >>, HTTP_201_CREATED)
    ELSE Out(d, << >>, HTTP_400_BAD_REQUEST)

\* ----------------------------------------------------------------- actions
Init == db = EmptyDb /\ inflight = << >>

\* A handled request leaves its database behind; the guard keeps the ids
\* within the model's bounds.
RecipeCreate ==
    /\ \E u \in Users, data \in RecipeData :
           /\ is_valid(data, FALSE) => db.seq.Recipe < MaxRecipes
           /\ LET out == recipe_create(db, u, data)
              IN  WithinBounds(out.db) /\ db' = out.db
    /\ UNCHANGED inflight

RecipeUpdate ==
    /\ \E u \in Users, pk \in RecipeIds, data \in RecipeData, partial \in BOOLEAN :
           LET out == recipe_update(db, u, pk, data, partial)
           IN  WithinBounds(out.db) /\ db' = out.db
    /\ UNCHANGED inflight

RecipeRetrieve ==
    /\ \E u \in Users, pk \in RecipeIds :
           \/ db' = recipe_retrieve(db, u, pk).db
           \/ \E query \in DetailQueries :
                 db' = recipe_detail(db, u, pk, query).db
    /\ UNCHANGED inflight

RecipeDestroy ==
    /\ \E u \in Users, pk \in RecipeIds :
           db' = recipe_destroy(db, u, pk).db
    /\ UNCHANGED inflight

RecipeList ==
    /\ \E u \in Users, query \in RecipeQueries :
           db' = recipe_list(db, u, query).db
    /\ UNCHANGED inflight

UploadImage ==
    /\ \E u \in Users, pk \in RecipeIds, data \in ImageData :
           db' = upload_image(db, u, pk, data).db
    /\ UNCHANGED inflight

AttrList ==
    /\ \E rel \in Relations, u \in Users, query \in AttrQueries :
           \E out \in attr_list(db, rel, u, query) : db' = out.db
    /\ UNCHANGED inflight

AttrUpdate ==
    /\ \E rel \in Relations, u \in Users, data \in AttrData, partial \in BOOLEAN :
           \E pk \in RowIds(rel) :
               db' = attr_update(db, rel, u, pk, data, partial).db
    /\ UNCHANGED inflight

AttrDestroy ==
    /\ \E rel \in Relations, u \in Users :
           \E pk \in RowIds(rel) : db' = attr_destroy(db, rel, u, pk).db
    /\ UNCHANGED inflight

AttrCreate ==
    /\ \E rel \in Relations, u \in Users, data \in AttrData :
           db' = attr_create(db, rel, u, data).db
    /\ UNCHANGED inflight

\* The actions above are the requests whose token authenticates as u.  A
\* request with no token or with a key no user holds, to any of the routes:
NotAuthenticated ==
    /\ \E credential \in Credentials \ ValidCredentials :
           \E out \in dispatch(db, credential) : db' = out.db
    /\ UNCHANGED inflight

UserCreate ==
    /\ \E credential \in Credentials, data \in AttrData :
           db' = user_create(db, credential, data).db
    /\ UNCHANGED inflight

Next ==
    \/ RecipeCreate
    \/ RecipeUpdate
    \/ RecipeRetrieve
    \/ RecipeDestroy
    \/ RecipeList
    \/ UploadImage
    \/ AttrList
    \/ AttrUpdate
    \/ AttrDestroy
    \/ AttrCreate
    \/ NotAuthenticated
    \/ UserCreate

Spec == Init /\ [][Next]_vars

\* ------------------------------------------------------ concurrent requests
\* Two recipe creates served side by side (two server workers).  Every ORM
\* statement commits on its own (no transaction is opened), so the statements
\* of the two requests interleave one by one.  A worker's record holds its
\* request (user, tags, ingredient) and where it stands: the recipe it
\* created, the relation and the names still to go through, the row it got,
\* the statement it is at and the status it returned.
Workers == {1, 2}

\* The name lists of the side-by-side requests; a client may name a tag twice.
WorkerTagLists == {<< >>, <<"a">>, <<"a", "a">>}

Received ==
    {[user |-> u, tags |-> t, ingredient |-> i, recipe |-> 0, rel |-> "tags",
      names |-> t, obj |-> 0, pc |-> "received", status |-> 0] :
        u \in Users, t \in WorkerTagLists, i \in IngredientLists}

\* The statement after the current one: the next name of the loop, then the
\* loop over the ingredients, then the return from create().
advance(w) ==
    IF w.names # << >> THEN [w EXCEPT !.pc = "get"]
    ELSE IF w.rel = "tags" /\ w.ingredient # << >>
    THEN [w EXCEPT !.rel = "ingredient", !.names = w.ingredient, !.pc = "get"]
    ELSE [w EXCEPT !.pc = "return"]

\* recipe = Recipe.objects.create(**validated_data)
objects_create(k) ==
    LET w == inflight[k]
        newId == db.seq.Recipe + 1
    IN  /\ w.pc = "received"
        /\ newId <= MaxRecipes
        /\ db' = [db EXCEPT !.Recipe = @ \cup
                     {[id |-> newId, user |-> w.user, title |-> "t1",
                       image |-> FALSE]},
                  !.seq.Recipe = newId]
        /\ inflight' = [inflight EXCEPT ![k] = advance([w EXCEPT !.recipe = newId])]

\* get_or_create, the lookup: self.get(user=auth_user, name=...) finds the
\* row, finds none (DoesNotExist, the row is then created) or finds several
\* (MultipleObjectsReturned, which nothing catches).
get(k) ==
    LET w == inflight[k]
        matches == {r \in db[Table(w.rel)] :
                       r.user = w.user /\ r.name = Head(w.names)}
    IN  /\ w.pc = "get"
        /\ inflight' = [inflight EXCEPT ![k] =
              IF Cardinality(matches) > 1 THEN [w EXCEPT !.pc = "raised"]
              ELSE IF matches # {}
              THEN [w EXCEPT !.obj = (CHOOSE r \in matches : TRUE).id,
                             !.pc = "add"]
              ELSE [w EXCEPT !.pc = "insert"]]
        /\ UNCHANGED db

\* get_or_create, after DoesNotExist: self.create(user=auth_user, name=...).
\* No constraint of the table rejects a second row of the same user and name.
insert(k) ==
    LET w == inflight[k]
        table == Table(w.rel)
        newId == db.seq[table] + 1
    IN  /\ w.pc = "insert"
        /\ newId <= (IF w.rel = "tags" THEN MaxTags ELSE MaxIngredients)
        /\ db' = [db EXCEPT ![table] = @ \cup
                     {[id |-> newId, user |-> w.user, name |-> Head(w.names)]},
                  !.seq[table] = newId]
        /\ inflight' = [inflight EXCEPT ![k] = [w EXCEPT !.obj = newId, !.pc = "add"]]

\* recipe.tags.add(tag_obj) / recipe.ingredient.add(ingredient_obj)
add(k) ==
    LET w == inflight[k]
    IN  /\ w.pc = "add"
        /\ db' = [db EXCEPT ![M2M(w.rel)] = @ \cup {<<w.recipe, w.obj>>}]
        /\ inflight' = [inflight EXCEPT ![k] =
                           advance([w EXCEPT !.names = Tail(@)])]

\* The response: 201 when create() returned, 500 when it raised.
respond(k) ==
    LET w == inflight[k]
    IN  /\ w.pc \in {"return", "raised"}
        /\ inflight' = [inflight EXCEPT ![k] =
              [w EXCEPT !.pc = "done",
                        !.status = IF w.pc = "raised"
                                   THEN HTTP_500_INTERNAL_SERVER_ERROR
                                   ELSE HTTP_201_CREATED]]
        /\ UNCHANGED db

InitConcurrent == db = EmptyDb /\ inflight \in [Workers -> Received]

NextConcurrent ==
    \E k \in Workers :
        \/ objects_create(k)
        \/ get(k)
        \/ insert(k)
        \/ add(k)
        \/ respond(k)

SpecConcurrent == InitConcurrent /\ [][NextConcurrent]_vars

\* ------------------------------------------------------------------ claims
\* The claims are stated over the handlers: in every database state the API
\* can reach, every request of the claim's kind has the claimed outcome.

Range(seq) == {seq[k] : k \in DOMAIN seq}
Owned(d, table, user) == {r \in d[table] : r.user = user}
NoDuplicates(seq) == \A j, k \in DOMAIN seq : j # k => seq[j] # seq[k]
AssignedOnly == [NoQuery EXCEPT !.assigned_only = Some("1")]

\* C1: an update (PUT or PATCH) of a recipe by its owner whose payload does
\* not contain a relation's key (tags, ingredient) leaves the recipe's
\* associations of that relation exactly as they were.
C1_AbsentKeyKeepsAssociations ==
    \A r \in db.Recipe, data \in RecipeData, partial \in BOOLEAN,
       rel \in Relations :
        ~data[rel].has =>
            Assoc(recipe_update(db, r.user, r.id, data, partial).db, rel, r.id)
                = Assoc(db, rel, r.id)

\* C2: the recipe list, the tag list and the ingredient list returned to a
\* user hold only rows that user owns, whatever the other user did before,
\* and hold every row the user owns when no filter parameter is given.
C2_ListsLimitedToUser ==
    \A user \in Users :
        /\ \A query \in RecipeQueries :
              Range(recipe_list(db, user, query).data)
                  \subseteq Ids(Owned(db, "Recipe", user))
        /\ Range(recipe_list(db, user, NoQuery).data)
              = Ids(Owned(db, "Recipe", user))
        /\ \A rel \in Relations :
              /\ \A query \in AttrQueries :
                    \A out \in attr_list(db, rel, user, query) :
                        Range(out.data) \subseteq Ids(Owned(db, Table(rel), user))
              /\ \A out \in attr_list(db, rel, user, NoQuery) :
                    Range(out.data) = Ids(Owned(db, Table(rel), user))

\* C2's case: both users own a recipe and a tag, and one user's lists are
\* served without the other's rows.
C2_Witness ==
    /\ \A user \in Users :
          Owned(db, "Recipe", user) # {} /\ Owned(db, "Tag", user) # {}
    /\ Len(recipe_list(db, "u2", NoQuery).data) = 1
    /\ \E out \in attr_list(db, "tags", "u2", NoQuery) :
          Len(out.data) < Cardinality(db.Tag)

\* C4: a tag (ingredient) list with assigned_only=1 is exactly the caller's
\* rows associated with at least one of the caller's recipes, each once.
C4_AssignedOnlyFilters ==
    \A user \in Users, rel \in Relations :
        \A out \in attr_list(db, rel, user, AssignedOnly) :
            /\ NoDuplicates(out.data)
            /\ Range(out.data) =
                  {a \in Ids(Owned(db, Table(rel), user)) :
                      \E r \in Owned(db, "Recipe", user) :
                          a \in Assoc(db, rel, r.id)}

\* C8: every tag and every ingredient associated with a recipe has that
\* recipe's owner.
C8_AssociationsShareOwner ==
    \A rel \in Relations : \A p \in db[M2M(rel)] :
        /\ p[1] \in Ids(db.Recipe)
        /\ p[2] \in Ids(db[Table(rel)])
        /\ Row(db[Table(rel)], p[2]).user = Row(db.Recipe, p[1]).user

\* C8's case: both users have recipes with associations, and a tag name is
\* held by a row of each user.
C8_Witness ==
    /\ \A user \in Users : \E r \in Owned(db, "Recipe", user) :
          Assoc(db, "tags", r.id) # {}
    /\ \E t1, t2 \in db.Tag : t1.name = t2.name /\ t1.user # t2.user
    /\ db.recipe_ingredient # {}

\* C10: an authenticated POST of a valid name to the tags (ingredients)
\* collection returns 201 and creates a row with that name owned by the caller.
C10_AttrPostCreates ==
    \A rel \in Relations, user \in Users, data \in AttrData :
        attr_errors(data, FALSE) = {} =>
            LET out == attr_create(db, rel, user, data)
            IN  /\ out.status = HTTP_201_CREATED
                /\ \E row \in out.db[Table(rel)] \ db[Table(rel)] :
                      row.user = user /\ row.name = data.name.val

\* C3: a retrieve, update (PUT or PATCH), delete or upload_image request by
\* a user B for the id of a resource another user owns is answered 404,
\* exactly as for an id that does not exist (0: ids start at 1), and changes
\* nothing stored.
C3_OtherUsersResourceIs404 ==
    \A B \in Users :
        /\ \A r \in db.Recipe \ Owned(db, "Recipe", B) :
              /\ recipe_retrieve(db, B, r.id) = Out(db, << >>, HTTP_404_NOT_FOUND)
              /\ recipe_retrieve(db, B, 0) = recipe_retrieve(db, B, r.id)
              /\ recipe_destroy(db, B, r.id) = Out(db, << >>, HTTP_404_NOT_FOUND)
              /\ recipe_destroy(db, B, 0) = recipe_destroy(db, B, r.id)
              /\ \A data \in RecipeData, partial \in BOOLEAN :
                    /\ recipe_update(db, B, r.id, data, partial)
                          = Out(db, << >>, HTTP_404_NOT_FOUND)
                    /\ recipe_update(db, B, 0, data, partial)
                          = recipe_update(db, B, r.id, data, partial)
              /\ \A data \in ImageData :
                    /\ upload_image(db, B, r.id, data)
                          = Out(db, << >>, HTTP_404_NOT_FOUND)
                    /\ upload_image(db, B, 0, data)
                          = upload_image(db, B, r.id, data)
        /\ \A rel \in Relations :
              \A a \in db[Table(rel)] \ Owned(db, Table(rel), B) :
                  /\ attr_destroy(db, rel, B, a.id)
                        = Out(db, << >>, HTTP_404_NOT_FOUND)
                  /\ attr_destroy(db, rel, B, 0)
                        = attr_destroy(db, rel, B, a.id)
                  /\ \A data \in AttrData, partial \in BOOLEAN :
                        /\ attr_update(db, rel, B, a.id, data, partial)
                              = Out(db, << >>, HTTP_404_NOT_FOUND)
                        /\ attr_update(db, rel, B, 0, data, partial)
                              = attr_update(db, rel, B, a.id, data, partial)

\* C3's case: u1 owns a recipe with a tag and an ingredient while u2 owns
\* rows of its own, and u2's delete of u1's recipe is answered 404.
C3_Witness ==
    \E r \in Owned(db, "Recipe", "u1") :
        /\ Assoc(db, "tags", r.id) # {}
        /\ Assoc(db, "ingredient", r.id) # {}
        /\ Owned(db, "Recipe", "u2") # {}
        /\ Owned(db, "Tag", "u2") # {}
        /\ recipe_destroy(db, "u2", r.id).status = HTTP_404_NOT_FOUND
        /\ recipe_destroy(db, "u1", r.id).status = HTTP_204_NO_CONTENT

\* The requests C5, C6 and C9 speak of: a recipe create by any user and an
\* update of a recipe by its owner, with a payload that passes validation.
\* Each is [user, pk, data, out]; pk is the recipe created or updated.
NestedWrites ==
    {[user |-> u, pk |-> db.seq.Recipe + 1, data |-> data,
      out |-> recipe_create(db, u, data)] :
        u \in Users, data \in {x \in RecipeData : is_valid(x, FALSE)}}
    \cup UNION {
        {[user |-> r.user, pk |-> r.id, data |-> data,
          out |-> recipe_update(db, r.user, r.id, data, partial)] :
            data \in {x \in RecipeData : is_valid(x, partial)}} :
        r \in db.Recipe, partial \in BOOLEAN}

Named(d, rel, user, name) ==
    {a \in d[Table(rel)] : a.user = user /\ a.name = name}

\* C5: for each name embedded under tags (ingredient) in a recipe create or
\* update by user U: when a row (U, name) exists it is associated with the
\* recipe and no row is added for the name; when none exists exactly one row
\* (U, name) is created and associated; no other user's row is associated.
C5_GetOrCreatePerName ==
    \A w \in NestedWrites, rel \in Relations :
        w.data[rel].has =>
            /\ \A name \in Range(w.data[rel].val) :
                  LET before == Named(db, rel, w.user, name)
                      after == Named(w.out.db, rel, w.user, name)
                  IN  /\ Ids(after) \cap Assoc(w.out.db, rel, w.pk) # {}
                      /\ IF before # {} THEN after = before
                         ELSE Cardinality(after) = 1
            /\ \A a \in Assoc(w.out.db, rel, w.pk) :
                  Row(w.out.db[Table(rel)], a).user = w.user
            /\ Cardinality(w.out.db[Table(rel)]) =
                  Cardinality(db[Table(rel)]) + Cardinality(
                      {name \in Range(w.data[rel].val) :
                          Named(db, rel, w.user, name) = {}})

\* C6: an update whose payload holds the tags (ingredient) key with a list L
\* leaves the recipe associated with exactly the owner's rows named in L;
\* with L = [] it leaves no association and is answered 200.
C6_KeyPresentReplaces ==
    \A w \in NestedWrites, rel \in Relations :
        (w.pk \in Ids(db.Recipe) /\ w.data[rel].has) =>
            /\ Assoc(w.out.db, rel, w.pk) =
                  {a.id : a \in {x \in w.out.db[Table(rel)] :
                      x.user = w.user /\ x.name \in Range(w.data[rel].val)}}
            /\ \A name \in Range(w.data[rel].val) :
                  Named(w.out.db, rel, w.user, name) # {}
            /\ w.data[rel].val = << >> =>
                  /\ w.out.status = HTTP_200_OK
                  /\ Assoc(w.out.db, rel, w.pk) = {}

\* C9: a recipe create or update that fails persists none of its writes.
C9_FailedWritePersistsNothing ==
    \A w \in NestedWrites :
        w.out.status = HTTP_500_INTERNAL_SERVER_ERROR => w.out.db = db

\* The payload without its 'user' key.
WithoutUser(data) == [data EXCEPT !.user = NoStr]

C11_UnauthenticatedIs401 ==
    \A credential \in Credentials \ ValidCredentials :
        /\ dispatch(db, credential) = {Out(db, << >>, HTTP_401_UNAUTHORIZED)}
        /\ \A data \in AttrData :
              user_create(db, credential, data).status # HTTP_401_UNAUTHORIZED

\* C11's case: both users own recipes with associations, the requests come
\* without a token, and the same requests sent with u1's token are served.
C11_Witness ==
    /\ \A user \in Users : \E r \in Owned(db, "Recipe", user) :
          Assoc(db, "tags", r.id) # {}
    /\ dispatch(db, NoStr) = {Out(db, << >>, HTTP_401_UNAUTHORIZED)}
    /\ \E out \in dispatch(db, Some(Token["u1"])) :
          out.status = HTTP_204_NO_CONTENT /\ out.db # db

\* The ids a well-formed comma-separated parameter names.
IdsOf(param) == params_to_ints(param.val).val
WellFormed(query) ==
    /\ ~params_to_ints(query.tags.val).raised
    /\ ~params_to_ints(query.ingredient.val).raised

\* C12: the recipe list with tags=T and/or ingredient=I (comma-separated id
\* lists) is answered 200 with exactly the caller's recipes that have a tag
\* whose id is in T (when T is given) and an ingredient whose id is in I
\* (when I is given), each once, in descending order of recipe id.
C12_ListFilters ==
    \A user \in Users, query \in RecipeQueries :
        WellFormed(query) =>
            LET out == recipe_list(db, user, query)
            IN  /\ out.status = HTTP_200_OK
                /\ out.db = db
                /\ \A j, k \in DOMAIN out.data : j < k => out.data[j] > out.data[k]
                /\ Range(out.data) =
                      {r.id : r \in {x \in Owned(db, "Recipe", user) :
                          /\ query.tags.has =>
                                Assoc(db, "tags", x.id) \cap IdsOf(query.tags) # {}
                          /\ query.ingredient.has =>
                                Assoc(db, "ingredient", x.id)
                                    \cap IdsOf(query.ingredient) # {}}}

\* C12's case: u1 owns two recipes, one of them with both tags 1 and 2 and
\* with ingredient 1; tags=1,2 lists that recipe once, and adding
\* ingredient=1 narrows a list of both recipes to one of them.
C12_Witness ==
    LET both == [NoQuery EXCEPT !.tags = Some(<<"1", "2">>)]
        narrowed == [both EXCEPT !.ingredient = Some(<<"1">>)]
    IN  /\ Cardinality(Owned(db, "Recipe", "u1")) = 2
        /\ \E r \in Owned(db, "Recipe", "u1") :
              Assoc(db, "tags", r.id) = {1, 2}
        /\ Len(recipe_list(db, "u1", both).data) = 2
        /\ Len(recipe_list(db, "u1", narrowed).data) = 1

\* C13: a request whose payload fails validation (a recipe create or PUT
\* without the required field or with a blank nested name, a tag or
\* ingredient update without a name or with a blank one, an upload of
\* something that is not an image) is answered 400, the errors naming the
\* failing fields, and no row or association is created, changed or removed.
C13_InvalidPayloadIs400 ==
    /\ \A user \in Users, data \in RecipeData :
          /\ recipe_errors(data, FALSE) # {} =>
                recipe_create(db, user, data)
                    = Out(db, << >>, HTTP_400_BAD_REQUEST)
          /\ \A r \in Owned(db, "Recipe", user), partial \in BOOLEAN :
                recipe_errors(data, partial) # {} =>
                    recipe_update(db, user, r.id, data, partial)
                        = Out(db, << >>, HTTP_400_BAD_REQUEST)
    /\ \A r \in db.Recipe, data \in ImageData :
          image_errors(data) # {} =>
              upload_image(db, r.user, r.id, data)
                  = Out(db, << >>, HTTP_400_BAD_REQUEST)
    /\ \A rel \in Relations : \A a \in db[Table(rel)] :
          \A data \in AttrData, partial \in BOOLEAN :
              attr_errors(data, partial) # {} =>
                  attr_update(db, rel, a.user, a.id, data, partial)
                      = Out(db, << >>, HTTP_400_BAD_REQUEST)

\* C13's case: u1 owns a recipe with a tag and an ingredient; a PUT without
\* the title that lists tags, a PATCH with a blank tag name and an upload
\* that is not an image are each answered 400.
C13_Witness ==
    \E r \in Owned(db, "Recipe", "u1") :
        /\ Assoc(db, "tags", r.id) # {}
        /\ Assoc(db, "ingredient", r.id) # {}
        /\ recipe_update(db, "u1", r.id,
               [NoData EXCEPT !.tags = Some(<<"b">>)], FALSE).status
                  = HTTP_400_BAD_REQUEST
        /\ recipe_update(db, "u1", r.id,
               [NoData EXCEPT !.tags = Some(<<"">>)], TRUE).status
                  = HTTP_400_BAD_REQUEST
        /\ upload_image(db, "u1", r.id,
               [NoData EXCEPT !.image = Some("notimage")]).status
                  = HTTP_400_BAD_REQUEST

\* C14: the delete of a recipe by its owner is answered 204 and removes the
\* recipe and its associations; every tag and ingredient row, also those the
\* recipe was associated with, and every other recipe with its associations
\* stay as they were.
C14_DeleteRecipeKeepsAttrs ==
    \A r \in db.Recipe :
        LET out == recipe_destroy(db, r.user, r.id)
        IN  /\ out.status = HTTP_204_NO_CONTENT
            /\ out.db.Recipe = db.Recipe \ {r}
            /\ out.db.Tag = db.Tag
            /\ out.db.Ingredient = db.Ingredient
            /\ \A rel \in Relations :
                  /\ Assoc(out.db, rel, r.id) = {}
                  /\ \A other \in db.Recipe \ {r} :
                        Assoc(out.db, rel, other.id) = Assoc(db, rel, other.id)
                  /\ out.db[M2M(rel)] \subseteq db[M2M(rel)]

\* C14's case: u1 owns two recipes that share a tag, one of them with an
\* ingredient too, and the delete of that one is answered 204.
C14_Witness ==
    \E r, other \in Owned(db, "Recipe", "u1") :
        /\ r # other
        /\ Assoc(db, "tags", r.id) \cap Assoc(db, "tags", other.id) # {}
        /\ Assoc(db, "ingredient", r.id) # {}
        /\ recipe_destroy(db, "u1", r.id).status = HTTP_204_NO_CONTENT
        /\ recipe_destroy(db, "u1", r.id).db # db

\* C15: when two requests of the same user are served side by side and both
\* embed a tag (ingredient) name no row has yet, then, however their
\* statements interleave, there is afterwards exactly one row of that owner
\* and name, and both recipes are associated with it.
C15_ConcurrentGetOrCreate ==
    (/\ \A k \in Workers : inflight[k].pc = "done"
     /\ inflight[1].user = inflight[2].user)
        => \A rel \in Relations :
              \A name \in Range(inflight[1][rel]) \cap Range(inflight[2][rel]) :
                  LET rows == Named(db, rel, inflight[1].user, name)
                  IN  /\ Cardinality(rows) = 1
                      /\ \A k \in Workers :
                            Ids(rows) \subseteq Assoc(db, rel, inflight[k].recipe)

\* C16: whatever requests came before (also renames through the tag and
\* ingredient update routes that leave a user with two rows of one name), a
\* recipe create or update by that user with a valid payload is answered 201
\* (200 for an update) and associates the recipe, for each embedded name,
\* with a row of that user and name.
C16_NestedWriteSucceeds ==
    \A w \in NestedWrites :
        /\ w.out.status =
              IF w.pk \in Ids(db.Recipe) THEN HTTP_200_OK ELSE HTTP_201_CREATED
        /\ \A rel \in Relations :
              w.data[rel].has =>
                  \A name \in Range(w.data[rel].val) :
                      \E a \in Named(w.out.db, rel, w.user, name) :
                          a.id \in Assoc(w.out.db, rel, w.pk)

\* C17: an authenticated recipe list or detail request ends, for every
\* value of the tags and ingredient query parameters (also one with an
\* element that is no integer, such as 'a' or '1,'), in 200, 400 or 404.
C17_QueryParamsHandled ==
    \A user \in Users, query \in RecipeQueries :
        /\ recipe_list(db, user, query).status
              \in {HTTP_200_OK, HTTP_400_BAD_REQUEST, HTTP_404_NOT_FOUND}
        /\ \A pk \in RecipeIds :
              recipe_detail(db, user, pk, query).status
                  \in {HTTP_200_OK, HTTP_400_BAD_REQUEST, HTTP_404_NOT_FOUND}

====
